---- MODULE Spec2Model ----
(***************************************************************************)
(* PySudoku-Solver: the solving engine of src/solver.py as a state machine.*)
(* One behaviour is one call solve_puzzle(puzzle, puzzle_pos): the         *)
(* deduction loop (naked single, unique position), the completion check    *)
(* and the recursive backtracking search, whose call stack is explicit.    *)
(***************************************************************************)
EXTENDS Integers, Sequences, FiniteSets, TLC

\* ------------------------------------------------------------ constants
\* range(9): the side of the grid.
N == 9
\* The side of a box: (x // 3) * 3, range(3).
Box == 3

\* Bounds of the checked inputs: how many cells of a base grid are blanked
\* and how many are overwritten with an arbitrary value 1..9.
MaxHoles == 2
MaxOverrides == 1

Idx == 0 .. (N - 1)
Nums == 1 .. N
\* range(1, 10) and range(9) as the ordered sequences the loops walk.
NumSeq == [i \in 1 .. N |-> i]
IdxSeq == [i \in 1 .. N |-> i - 1]
Cells == Idx \X Idx

\* The value find_empty returns when no cell is empty (None).
None == <<>>

VARIABLES
    puzzle,      \* the 9x9 grid, mutated in place: puzzle[row][col] in 0..9
    puzzle_pos,  \* the 9x9 candidate lists: puzzle_pos[row][col] is a list
    pc,          \* where solve_puzzle / backtracking stands
    stack,       \* the frames of backtracking, outermost first
    ret,         \* the value the backtracking call that just returned gave
    result,      \* the value solve_puzzle returned (meaningful at "done")
    input,       \* history: the grid solve_puzzle was called with
    n_single,    \* history: calls of row_col_square_single_algo returning True
    n_only,      \* history: calls of row_col_square_only_algo returning True
    bt_calls,    \* history: calls of backtracking (recursive ones included)
    last_write,  \* history: the last assignment to a grid cell: what made it
                 \*   ("single", "row", "col", "square", "assign", "revert";
                 \*   "none" before any), the cell and the value written
    n_writes,    \* history: the number of assignments to grid cells so far
    stalled,     \* history: the rules that returned False since the grid
                 \*   was last written
    first_run    \* the outcome of solve_puzzle (its result and the grid it
                 \*   left), kept while backtracking is then applied
                 \*   directly to a copy of the same input

hist ==
    <<input, n_single, n_only, bt_calls, last_write, n_writes, stalled,
      first_run>>

vars == <<puzzle, puzzle_pos, pc, stack, ret, result, hist>>

\* ------------------------------------------------------- pure functions

\* Mutant of check_puzzle_solved: the completion check of lines 140-141 is
\* never taken, so solve_puzzle always goes on to backtracking.
check_puzzle_solved_never(p) == FALSE

\* check_puzzle_solved: no zero remains.
check_puzzle_solved(p) ==
    \A row \in Idx : \A col \in Idx : p[row][col] # 0

\* Mutant of is_possible: the scan of the 3x3 square (lines 34-38) is left
\* out.
is_possible_no_square(p, x, y, num) ==
    IF p[x][y] # 0 THEN FALSE
    ELSE IF \E col \in Idx : p[x][col] = num THEN FALSE
    ELSE ~ \E row \in Idx : p[row][y] = num

\* Mutant of is_possible: the scan of the column (lines 32-33) is left out.
is_possible_no_column(p, x, y, num) ==
    IF p[x][y] # 0 THEN FALSE
    ELSE IF \E col \in Idx : p[x][col] = num THEN FALSE
    ELSE LET x0 == (x \div Box) * Box
             y0 == (y \div Box) * Box
         IN  ~ \E i \in 0 .. (Box - 1) : \E j \in 0 .. (Box - 1) :
                    p[x0 + i][y0 + j] = num

\* Mutant of is_possible: the scan of the row (lines 30-31) is left out.
is_possible_no_row(p, x, y, num) ==
    IF p[x][y] # 0 THEN FALSE
    ELSE IF \E row \in Idx : p[row][y] = num THEN FALSE
    ELSE LET x0 == (x \div Box) * Box
             y0 == (y \div Box) * Box
         IN  ~ \E i \in 0 .. (Box - 1) : \E j \in 0 .. (Box - 1) :
                    p[x0 + i][y0 + j] = num

\* is_possible(puzzle, x, y, num)
is_possible(p, x, y, num) ==
    IF p[x][y] # 0 THEN FALSE
    ELSE IF \E col \in Idx : p[x][col] = num THEN FALSE
    ELSE IF \E row \in Idx : p[row][y] = num THEN FALSE
    ELSE LET x0 == (x \div Box) * Box
             y0 == (y \div Box) * Box
         IN  ~ \E i \in 0 .. (Box - 1) : \E j \in 0 .. (Box - 1) :
                    p[x0 + i][y0 + j] = num

\* possible_nums = [num for num in range(1, 10) if is_possible(...)]
possible_nums(p, row, col) ==
    SelectSeq(NumSeq, LAMBDA num : is_possible(p, row, col, num))

\* The smallest element of a non-empty set of loop indices: the iteration
\* at which a loop that returns on its first hit returns.
First(S) == CHOOSE k \in S : \A j \in S : k <= j

\* Flat loop indices: k = row * 9 + col for the nested loops over cells.
Flat == 0 .. (N * N - 1)

\* Mutant of single_hit: line 55 tests len(possible_nums) >= 1, so the
\* rule commits the first candidate of a cell that has several.
single_hit_any(p, k) ==
    /\ p[k \div N][k % N] = 0
    /\ Len(possible_nums(p, k \div N, k % N)) >= 1

\* Lines 51-55 at iteration k: the cell is empty and has one possible num.
single_hit(p, k) ==
    /\ p[k \div N][k % N] = 0
    /\ Len(possible_nums(p, k \div N, k % N)) = 1

\* Mutant of row_col_square_single_algo: line 52 is left out, so a filled
\* cell keeps the candidate list it had while it was empty.
row_col_square_single_algo_stale(p, pos) ==
    LET hits == {k \in Flat : single_hit(p, k)}
        stop == IF hits = {} THEN N * N ELSE First(hits)
        new_pos == [row \in Idx |-> [col \in Idx |->
                      IF row * N + col < stop /\ p[row][col] = 0
                      THEN possible_nums(p, row, col)
                      ELSE pos[row][col]]]
    IN  IF hits = {}
        THEN [puzzle |-> p, puzzle_pos |-> new_pos, ret |-> FALSE]
        ELSE [puzzle |-> [p EXCEPT ![stop \div N][stop % N] =
                              possible_nums(p, stop \div N, stop % N)[1]],
              puzzle_pos |-> new_pos, ret |-> TRUE,
              at |-> <<stop \div N, stop % N>>,
              num |-> possible_nums(p, stop \div N, stop % N)[1]]

\* row_col_square_single_algo: the loop returns at its first hit (stop);
\* the cells before it have had their candidate list rewritten (line 52 or
\* 58), the cell of the hit and those after it keep their old list.
row_col_square_single_algo(p, pos) ==
    LET hits == {k \in Flat : single_hit(p, k)}
        stop == IF hits = {} THEN N * N ELSE First(hits)
        new_pos == [row \in Idx |-> [col \in Idx |->
                      IF row * N + col < stop
                      THEN IF p[row][col] # 0 THEN <<>>
                           ELSE possible_nums(p, row, col)
                      ELSE pos[row][col]]]
    IN  IF hits = {}
        THEN [puzzle |-> p, puzzle_pos |-> new_pos, ret |-> FALSE]
        ELSE [puzzle |-> [p EXCEPT ![stop \div N][stop % N] =
                              possible_nums(p, stop \div N, stop % N)[1]],
              puzzle_pos |-> new_pos, ret |-> TRUE,
              at |-> <<stop \div N, stop % N>>,
              num |-> possible_nums(p, stop \div N, stop % N)[1]]

\* num in puzzle_pos[row][col]
InPos(pos, row, col, num) ==
    \E i \in DOMAIN pos[row][col] : pos[row][col][i] = num

\* positions = [(row, col) for col in range(9) if num in puzzle_pos[row][col]]
row_positions(pos, row, num) ==
    LET cols == SelectSeq(IdxSeq, LAMBDA col : InPos(pos, row, col, num))
    IN  [i \in DOMAIN cols |-> <<row, cols[i]>>]

\* positions = [(row, col) for row in range(9) if num in puzzle_pos[row][col]]
col_positions(pos, col, num) ==
    LET rows == SelectSeq(IdxSeq, LAMBDA row : InPos(pos, row, col, num))
    IN  [i \in DOMAIN rows |-> <<rows[i], col>>]

\* The cells of the square at (x, y), for i in range(3): for j in range(3).
SquareSeq(x, y) ==
    [k \in 1 .. (Box * Box) |-> <<x + ((k - 1) \div Box), y + ((k - 1) % Box)>>]

square_positions(pos, x, y, num) ==
    SelectSeq(SquareSeq(x, y), LAMBDA rc : InPos(pos, rc[1], rc[2], num))

\* The three loops of row_col_square_only_algo. k runs over the pairs
\* (unit, num) in the order of the nested loops: unit = k // 9 and
\* num = k % 9 + 1. A hit is an iteration whose positions list has length 1.
\* Mutant of row_hits: len(positions) >= 1, the value is written to the
\* first of its positions even when it has several.
row_hits_not_unique(pos) ==
    {k \in Flat : Len(row_positions(pos, k \div N, (k % N) + 1)) >= 1}

row_hits(pos) ==
    {k \in Flat : Len(row_positions(pos, k \div N, (k % N) + 1)) = 1}

col_hits(pos) ==
    {k \in Flat : Len(col_positions(pos, k \div N, (k % N) + 1)) = 1}

\* for x in (0, 3, 6): for y in (0, 3, 6): for num in range(1, 10)
SquareX(k) == ((k \div N) \div Box) * Box
SquareY(k) == ((k \div N) % Box) * Box

square_hits(pos) ==
    {k \in Flat :
        Len(square_positions(pos, SquareX(k), SquareY(k), (k % N) + 1)) = 1}

\* The first hit of row_col_square_only_algo, rows before columns before
\* squares: the branch, the cell positions[0] and the num written there.
only_hit(pos) ==
    IF row_hits(pos) # {}
    THEN LET k == First(row_hits(pos))
         IN  [branch |-> "row", num |-> (k % N) + 1,
              at |-> row_positions(pos, k \div N, (k % N) + 1)[1]]
    ELSE IF col_hits(pos) # {}
    THEN LET k == First(col_hits(pos))
         IN  [branch |-> "col", num |-> (k % N) + 1,
              at |-> col_positions(pos, k \div N, (k % N) + 1)[1]]
    ELSE IF square_hits(pos) # {}
    THEN LET k == First(square_hits(pos))
         IN  [branch |-> "square", num |-> (k % N) + 1,
              at |-> square_positions(pos, SquareX(k), SquareY(k),
                                      (k % N) + 1)[1]]
    ELSE [branch |-> "none"]

\* Mutant of row_col_square_only_algo: the write swaps the two indices of
\* positions[0] (puzzle[positions[0][1]][positions[0][0]] = num).
row_col_square_only_algo_transposed(p, pos) ==
    LET h == only_hit(pos)
    IN  IF h.branch = "none"
        THEN [puzzle |-> p, ret |-> FALSE, branch |-> "none"]
        ELSE [puzzle |-> [p EXCEPT ![h.at[2]][h.at[1]] = h.num],
              ret |-> TRUE, branch |-> h.branch,
              at |-> <<h.at[2], h.at[1]>>, num |-> h.num]

\* Mutant of row_col_square_only_algo: after its write the rule returns
\* False instead of True.
row_col_square_only_algo_reports_false(p, pos) ==
    LET h == only_hit(pos)
    IN  IF h.branch = "none"
        THEN [puzzle |-> p, ret |-> FALSE, branch |-> "none"]
        ELSE [puzzle |-> [p EXCEPT ![h.at[1]][h.at[2]] = h.num],
              ret |-> FALSE, branch |-> h.branch, at |-> h.at, num |-> h.num]

row_col_square_only_algo(p, pos) ==
    LET h == only_hit(pos)
    IN  IF h.branch = "none"
        THEN [puzzle |-> p, ret |-> FALSE, branch |-> "none"]
        ELSE [puzzle |-> [p EXCEPT ![h.at[1]][h.at[2]] = h.num],
              ret |-> TRUE, branch |-> h.branch, at |-> h.at, num |-> h.num]

\* find_empty: the first empty cell in row-major order, or None.
find_empty(p) ==
    LET zeros == {k \in Flat : p[k \div N][k % N] = 0}
    IN  IF zeros = {} THEN None
        ELSE <<First(zeros) \div N, First(zeros) % N>>

\* ------------------------------------------------------------ the inputs
\* A grid from its nine rows (a list of lists, indexed from 0).
Grid(rows) == [row \in Idx |-> [col \in Idx |-> rows[row + 1][col + 1]]]

\* A solved grid: the solution of the classic puzzle below.
Reference == Grid(
    << <<5, 3, 4, 6, 7, 8, 9, 1, 2>>,
       <<6, 7, 2, 1, 9, 5, 3, 4, 8>>,
       <<1, 9, 8, 3, 4, 2, 5, 6, 7>>,
       <<8, 5, 9, 7, 6, 1, 4, 2, 3>>,
       <<4, 2, 6, 8, 5, 3, 7, 9, 1>>,
       <<7, 1, 3, 9, 2, 4, 8, 5, 6>>,
       <<9, 6, 1, 5, 3, 7, 2, 8, 4>>,
       <<2, 8, 7, 4, 1, 9, 6, 3, 5>>,
       <<3, 4, 5, 2, 8, 6, 1, 7, 9>> >>)

\* The classic puzzle with 30 givens; naked singles alone solve it.
Classic == Grid(
    << <<5, 3, 0, 0, 7, 0, 0, 0, 0>>,
       <<6, 0, 0, 1, 9, 5, 0, 0, 0>>,
       <<0, 9, 8, 0, 0, 0, 0, 6, 0>>,
       <<8, 0, 0, 0, 6, 0, 0, 0, 3>>,
       <<4, 0, 0, 8, 0, 3, 0, 0, 1>>,
       <<7, 0, 0, 0, 2, 0, 0, 0, 6>>,
       <<0, 6, 0, 0, 0, 0, 2, 8, 0>>,
       <<0, 0, 0, 4, 1, 9, 0, 0, 5>>,
       <<0, 0, 0, 0, 8, 0, 0, 7, 9>> >>)

\* A sparse puzzle (36 givens of Reference) on which the row, the column and
\* the square scan of the unique-position rule all fire before deduction
\* stalls and backtracking takes over.
Sparse == Grid(
    << <<0, 0, 4, 0, 7, 8, 9, 0, 2>>,
       <<6, 0, 0, 0, 0, 5, 3, 0, 0>>,
       <<0, 0, 8, 0, 4, 2, 5, 0, 7>>,
       <<8, 0, 0, 0, 6, 1, 4, 2, 0>>,
       <<4, 2, 0, 0, 0, 0, 0, 0, 1>>,
       <<0, 0, 3, 0, 2, 0, 8, 5, 0>>,
       <<0, 0, 0, 0, 0, 0, 2, 0, 4>>,
       <<0, 0, 0, 4, 0, 0, 6, 3, 5>>,
       <<3, 4, 5, 0, 8, 6, 0, 0, 0>> >>)

EmptyGrid == [row \in Idx |-> [col \in Idx |-> 0]]

\* The cells the inputs vary: givens of Sparse (and so of Reference).
Window == {<<0, 2>>, <<1, 6>>, <<2, 4>>}

\* base with the cells of H blanked and the cells of DOMAIN O overwritten.
Edit(base, H, O) ==
    [row \in Idx |-> [col \in Idx |->
        IF <<row, col>> \in H THEN 0
        ELSE IF <<row, col>> \in DOMAIN O THEN O[<<row, col>>]
        ELSE base[row][col]]]

HoleSets == {H \in SUBSET Window : Cardinality(H) <= MaxHoles}

OverrideMaps(H) ==
    UNION {[D -> Nums] :
           D \in {X \in SUBSET (Window \ H) : Cardinality(X) <= MaxOverrides}}

\* The grids solve_puzzle is called with: the all-zero grid, the classic
\* puzzle, and Reference and Sparse with up to MaxHoles window cells blanked
\* and up to MaxOverrides window cells overwritten (consistent or not).
InputsFrom(base) ==
    UNION {{Edit(base, H, O) : O \in OverrideMaps(H)} : H \in HoleSets}

Inputs == {EmptyGrid, Classic} \cup InputsFrom(Reference) \cup InputsFrom(Sparse)

\* ---------------------------------------------------------- the machine
\* main(): puzzle_pos = [[[] for _ in range(9)] for _ in range(9)], then
\* solve_puzzle(puzzle, puzzle_pos).
Init ==
    /\ input \in Inputs
    /\ puzzle = input
    /\ puzzle_pos = [row \in Idx |-> [col \in Idx |-> <<>>]]
    /\ pc = "single"
    /\ stack = <<>>
    /\ ret = FALSE
    /\ result = FALSE
    /\ n_single = 0
    /\ n_only = 0
    /\ bt_calls = 0
    /\ last_write = [rule |-> "none"]
    /\ n_writes = 0
    /\ stalled = {}
    /\ first_run = [taken |-> FALSE, result |-> FALSE, puzzle |-> input]

\* Mutant of SingleFill: the continue of line 136 is left out, so the
\* unique-position rule runs right after a naked-single fill.
SingleFillFallsThrough ==
    /\ pc = "single"
    /\ LET r == row_col_square_single_algo(puzzle, puzzle_pos)
       IN  /\ r.ret
           /\ puzzle' = r.puzzle
           /\ puzzle_pos' = r.puzzle_pos
           /\ last_write' = [rule |-> "single", at |-> r.at, num |-> r.num]
    /\ pc' = "only"
    /\ n_single' = n_single + 1
    /\ n_writes' = n_writes + 1
    /\ stalled' = {}
    /\ UNCHANGED <<stack, ret, result, input, n_only, bt_calls,
                   first_run>>

\* solve_puzzle, line 135: row_col_square_single_algo returned True; continue.
SingleFill ==
    /\ pc = "single"
    /\ LET r == row_col_square_single_algo(puzzle, puzzle_pos)
       IN  /\ r.ret
           /\ puzzle' = r.puzzle
           /\ puzzle_pos' = r.puzzle_pos
           /\ last_write' = [rule |-> "single", at |-> r.at, num |-> r.num]
    /\ pc' = "single"
    /\ n_single' = n_single + 1
    /\ n_writes' = n_writes + 1
    /\ stalled' = {}
    /\ UNCHANGED <<stack, ret, result, input, n_only, bt_calls,
                   first_run>>

\* Mutant of SingleStall: the loop breaks as soon as the naked-single rule
\* returns False, without trying the unique-position rule (line 137).
SingleStallBreaks ==
    /\ pc = "single"
    /\ LET r == row_col_square_single_algo(puzzle, puzzle_pos)
       IN  /\ ~ r.ret
           /\ puzzle' = r.puzzle
           /\ puzzle_pos' = r.puzzle_pos
    /\ pc' = "check"
    /\ stalled' = stalled \cup {"single"}
    /\ UNCHANGED <<stack, ret, result, input, n_single, n_only, bt_calls,
                   last_write, n_writes,
                   first_run>>

\* solve_puzzle, line 135: it returned False; on to line 137.
SingleStall ==
    /\ pc = "single"
    /\ LET r == row_col_square_single_algo(puzzle, puzzle_pos)
       IN  /\ ~ r.ret
           /\ puzzle' = r.puzzle
           /\ puzzle_pos' = r.puzzle_pos
    /\ pc' = "only"
    /\ stalled' = stalled \cup {"single"}
    /\ UNCHANGED <<stack, ret, result, input, n_single, n_only, bt_calls,
                   last_write, n_writes,
                   first_run>>

\* solve_puzzle, line 137: row_col_square_only_algo returned True; continue.
OnlyFill ==
    /\ pc = "only"
    /\ LET r == row_col_square_only_algo(puzzle, puzzle_pos)
       IN  /\ r.ret
           /\ puzzle' = r.puzzle
           /\ last_write' = [rule |-> r.branch, at |-> r.at, num |-> r.num]
    /\ pc' = "single"
    /\ n_only' = n_only + 1
    /\ n_writes' = n_writes + 1
    /\ stalled' = {}
    /\ UNCHANGED <<puzzle_pos, stack, ret, result, input, n_single, bt_calls,
                   first_run>>

\* solve_puzzle, lines 137-139: it returned False; break.
OnlyStall ==
    /\ pc = "only"
    /\ LET r == row_col_square_only_algo(puzzle, puzzle_pos)
       IN  /\ ~ r.ret
           /\ puzzle' = r.puzzle
    /\ pc' = "check"
    /\ stalled' = stalled \cup {"only"}
    /\ UNCHANGED <<puzzle_pos, stack, ret, result, input, n_single, n_only,
                   bt_calls, last_write, n_writes,
                   first_run>>

\* solve_puzzle, lines 140-141: the grid is full; return True.
Solved ==
    /\ pc = "check"
    /\ check_puzzle_solved(puzzle)
    /\ pc' = "done"
    /\ result' = TRUE
    /\ UNCHANGED <<puzzle, puzzle_pos, stack, ret, hist>>

\* solve_puzzle, line 142: return backtracking(puzzle).
StartBacktracking ==
    /\ pc = "check"
    /\ ~ check_puzzle_solved(puzzle)
    /\ pc' = "bt_call"
    /\ UNCHANGED <<puzzle, puzzle_pos, stack, ret, result, hist>>

Top == stack[Len(stack)]
Pop == SubSeq(stack, 1, Len(stack) - 1)

\* Mutant of loop_over: range(1, 9), the loop stops short of 9.
loop_over_short(num) == num > N - 1

\* for num in range(1, 10): the loop is over once num has passed 9.
loop_over(num) == num > N

\* backtracking, line 115: a call begins; its frame holds empty, the loop
\* variable num and (history) the grid as it was at entry.
BtCall ==
    /\ pc = "bt_call"
    /\ stack' = Append(stack, [empty |-> find_empty(puzzle), num |-> 1,
                               entry |-> puzzle])
    /\ pc' = "bt_body"
    /\ bt_calls' = bt_calls + 1
    /\ UNCHANGED <<puzzle, puzzle_pos, ret, result, input, n_single, n_only,
                   last_write, n_writes, stalled,
                   first_run>>

\* backtracking, lines 116-117: no empty cell; return True.
BtComplete ==
    /\ pc = "bt_body"
    /\ Top.empty = None
    /\ ret' = TRUE
    /\ pc' = "bt_ret"
    /\ UNCHANGED <<puzzle, puzzle_pos, stack, result, hist>>

\* backtracking, lines 119-122: num is possible; assign it and recurse.
BtAssign ==
    /\ pc = "bt_body"
    /\ Top.empty # None
    /\ ~ loop_over(Top.num)
    /\ is_possible(puzzle, Top.empty[1], Top.empty[2], Top.num)
    /\ puzzle' = [puzzle EXCEPT ![Top.empty[1]][Top.empty[2]] = Top.num]
    /\ pc' = "bt_call"
    /\ last_write' = [rule |-> "assign", at |-> Top.empty, num |-> Top.num]
    /\ n_writes' = n_writes + 1
    /\ stalled' = {}
    /\ UNCHANGED <<puzzle_pos, stack, ret, result, input, n_single, n_only,
                   bt_calls,
                   first_run>>

\* backtracking, lines 119-120: num is not possible; next num.
BtSkip ==
    /\ pc = "bt_body"
    /\ Top.empty # None
    /\ ~ loop_over(Top.num)
    /\ ~ is_possible(puzzle, Top.empty[1], Top.empty[2], Top.num)
    /\ stack' = [stack EXCEPT ![Len(stack)].num = @ + 1]
    /\ UNCHANGED <<puzzle, puzzle_pos, pc, ret, result, hist>>

\* backtracking, line 125: the loop is over; return False.
BtExhausted ==
    /\ pc = "bt_body"
    /\ Top.empty # None
    /\ loop_over(Top.num)
    /\ ret' = FALSE
    /\ pc' = "bt_ret"
    /\ UNCHANGED <<puzzle, puzzle_pos, stack, result, hist>>

\* backtracking, lines 122-123: the recursive call returned True, and so
\* does its caller.
BtUnwind ==
    /\ pc = "bt_ret"
    /\ Len(stack) > 1
    /\ ret
    /\ stack' = Pop
    /\ UNCHANGED <<puzzle, puzzle_pos, pc, ret, result, hist>>

\* Mutant of BtRevert: the caller retries the same num instead of going on
\* with the next one.
BtRevertRetries ==
    /\ pc = "bt_ret"
    /\ Len(stack) > 1
    /\ ~ ret
    /\ LET caller == stack[Len(stack) - 1]
       IN  /\ puzzle' = [puzzle EXCEPT ![caller.empty[1]][caller.empty[2]] = 0]
           /\ last_write' = [rule |-> "revert", at |-> caller.empty, num |-> 0]
    /\ stack' = Pop
    /\ pc' = "bt_body"
    /\ n_writes' = n_writes + 1
    /\ stalled' = {}
    /\ UNCHANGED <<puzzle_pos, ret, result, input, n_single, n_only, bt_calls,
                   first_run>>

\* Mutant of BtRevert: line 124 (puzzle[row][col] = 0) is left out.
BtRevertKeepsCell ==
    /\ pc = "bt_ret"
    /\ Len(stack) > 1
    /\ ~ ret
    /\ stack' = [Pop EXCEPT ![Len(stack) - 1].num = @ + 1]
    /\ pc' = "bt_body"
    /\ stalled' = {}
    /\ UNCHANGED <<puzzle, puzzle_pos, ret, result, input, n_single, n_only,
                   bt_calls, last_write, n_writes,
                   first_run>>

\* backtracking, lines 122-124: the recursive call returned False; the
\* caller reverts its cell to 0 and goes on with the next num.
BtRevert ==
    /\ pc = "bt_ret"
    /\ Len(stack) > 1
    /\ ~ ret
    /\ LET caller == stack[Len(stack) - 1]
       IN  /\ puzzle' = [puzzle EXCEPT ![caller.empty[1]][caller.empty[2]] = 0]
           /\ last_write' = [rule |-> "revert", at |-> caller.empty, num |-> 0]
    /\ stack' = [Pop EXCEPT ![Len(stack) - 1].num = @ + 1]
    /\ pc' = "bt_body"
    /\ n_writes' = n_writes + 1
    /\ stalled' = {}
    /\ UNCHANGED <<puzzle_pos, ret, result, input, n_single, n_only, bt_calls,
                   first_run>>

\* solve_puzzle, line 142: the outermost backtracking call returned, and
\* solve_puzzle returns its value.
BtFinish ==
    /\ pc = "bt_ret"
    /\ Len(stack) = 1
    /\ stack' = <<>>
    /\ result' = ret
    /\ pc' = "done"
    /\ UNCHANGED <<puzzle, puzzle_pos, ret, hist>>

Next ==
    \/ SingleFill
    \/ SingleStall
    \/ OnlyFill
    \/ OnlyStall
    \/ Solved
    \/ StartBacktracking
    \/ BtCall
    \/ BtComplete
    \/ BtAssign
    \/ BtSkip
    \/ BtExhausted
    \/ BtUnwind
    \/ BtRevert
    \/ BtFinish

Spec == Init /\ [][Next]_vars

\* The steps after the deduction loop: the completion check and the search.
SearchStep ==
    \/ Solved
    \/ StartBacktracking
    \/ BtCall
    \/ BtComplete
    \/ BtAssign
    \/ BtSkip
    \/ BtExhausted
    \/ BtUnwind
    \/ BtRevert
    \/ BtFinish

\* solve_puzzle can take a step. In the deduction loop it always can: a rule
\* returns True (SingleFill, OnlyFill) or False (SingleStall, OnlyStall).
CanStep == pc \in {"single", "only"} \/ ENABLED SearchStep

\* ------------------------------------------------ the rules of the game
\* The 27 units: the rows, the columns and the 3x3 boxes, as sets of cells.
RowUnit(r) == {<<r, c>> : c \in Idx}
ColUnit(c) == {<<r, c>> : r \in Idx}
BoxUnit(b) ==
    {<<(b \div Box) * Box + i, (b % Box) * Box + j>> :
        i \in 0 .. (Box - 1), j \in 0 .. (Box - 1)}
Units ==
    {RowUnit(r) : r \in Idx} \cup {ColUnit(c) : c \in Idx}
    \cup {BoxUnit(b) : b \in Idx}

\* No two filled cells of unit u hold equal values.
NoDuplicate(g, u) ==
    \A a \in u : \A b \in u :
        (a # b /\ g[a[1]][a[2]] # 0) => g[a[1]][a[2]] # g[b[1]][b[2]]

\* The filled cells of g are mutually consistent.
Legal(g) == \A u \in Units : NoDuplicate(g, u)

\* Unit u of g holds each value 1..9 exactly once.
Complete(g, u) ==
    \A v \in Nums : Cardinality({a \in u : g[a[1]][a[2]] = v}) = 1

\* g is a solved Sudoku.
ValidSolved(g) == \A u \in Units : Complete(g, u)

EmptyCells(g) == {a \in Cells : g[a[1]][a[2]] = 0}

\* Some row of g holds the same non-zero value twice.
RowDuplicate(g) == \E r \in Idx : ~ NoDuplicate(g, RowUnit(r))

\* The values no filled cell sharing a unit with cell a holds.
Free(g, a) ==
    {v \in Nums :
        \A u \in Units : a \in u => \A b \in u : g[b[1]][b[2]] # v}

\* g, all of whose filled cells are consistent, can be completed to a solved
\* grid: decided by search on the empty cell with the fewest free values.
RECURSIVE Completable(_)
Completable(g) ==
    IF EmptyCells(g) = {} THEN TRUE
    ELSE LET a == CHOOSE a \in EmptyCells(g) :
                    \A b \in EmptyCells(g) :
                        Cardinality(Free(g, a)) <= Cardinality(Free(g, b))
         IN  \E v \in Free(g, a) :
                Completable([g EXCEPT ![a[1]][a[2]] = v])

HasCompletion(g) == Legal(g) /\ Completable(g)

\* The number of recursive calls nested below the outermost call of
\* backtracking: the tentative assignments in place.
Depth == Len(stack) - 1

\* --------------------------------------------------------------- claims

\* C1: soundness. When solve_puzzle returns True on an input whose givens
\* are consistent, the grid has no zero cell and every row, column and box
\* holds each of 1..9 exactly once.
C1_Soundness ==
    (pc = "done" /\ result /\ Legal(input))
        => (check_puzzle_solved(puzzle) /\ ValidSolved(puzzle))

\* A consistent input solved by deduction steps followed by a search that
\* had to revert assignments: it made more assignments (one per call after
\* the first) than deduction had left cells empty.
C1_Witness ==
    /\ pc = "done" /\ result /\ Legal(input)
    /\ n_single > 0 /\ n_only > 0
    /\ bt_calls - 1 > Cardinality(EmptyCells(input)) - n_single - n_only

\* C4: when a call of backtracking returns False, at any depth, the grid is
\* cell for cell the grid the call was entered with.
C4_FailureRestoresGrid ==
    (pc = "bt_ret" /\ ~ ret) => puzzle = Top.entry

\* A call below the outermost one returns False after it made a tentative
\* assignment of its own (some value was possible at its entry).
C4_Witness ==
    /\ pc = "bt_ret" /\ ~ ret /\ Depth >= 1
    /\ \E v \in Nums : is_possible(Top.entry, Top.empty[1], Top.empty[2], v)

\* C5: on a solved valid grid solve_puzzle returns True, no rule fills a
\* cell, backtracking is not invoked and no cell is modified.
C5_SolvedIdempotent ==
    ValidSolved(input) =>
        /\ puzzle = input
        /\ n_single = 0 /\ n_only = 0 /\ bt_calls = 0
        /\ pc \in {"single", "only", "check", "done"}
        /\ pc = "done" => result

C5_Witness == ValidSolved(input) /\ pc = "done" /\ result

\* C6: from consistent givens, every grid reached during solve_puzzle is
\* consistent: no two filled cells of a row, column or box are equal.
C6_GridStaysLegal == Legal(input) => Legal(puzzle)

\* A tentative assignment made inside the search, below another one, after
\* each scan of the unique-position rule and the naked-single rule wrote.
C6_Witness ==
    /\ Legal(input) /\ last_write.rule = "assign" /\ Depth >= 1
    /\ n_single > 0 /\ n_only > 0

\* C2: completeness. On an input whose givens are consistent, solve_puzzle
\* returns False only if the input has no legal completion.
C2_Completeness ==
    (pc = "done" /\ ~ result /\ Legal(input)) => ~ HasCompletion(input)

\* solve_puzzle returns False on a consistent input after deduction filled
\* cells and the search tried and reverted assignments.
C2_Witness ==
    /\ pc = "done" /\ ~ result /\ Legal(input)
    /\ n_single > 0 /\ n_only > 0 /\ bt_calls > 1

\* A consistent input with a completion, solved by deduction and search:
\* the other side of C2.
C2_SolvableReached ==
    pc = "done" /\ result /\ HasCompletion(input) /\ bt_calls > 1

\* C3 as claimed: on every input with two equal non-zero values in one row,
\* solve_puzzle returns False.
C3_RowDuplicateFails ==
    (pc = "done" /\ RowDuplicate(input)) => ~ result

\* C7: every write of a non-zero value v to a cell (r, c), by the
\* naked-single rule, by the unique-position rule or by backtracking, is
\* made in a state where is_possible(grid, r, c, v) holds.
C7_WritesArePossible ==
    [][(n_writes' # n_writes /\ last_write'.num # 0)
          => /\ is_possible(puzzle, last_write'.at[1], last_write'.at[2],
                            last_write'.num)
             /\ puzzle' = [puzzle EXCEPT
                              ![last_write'.at[1]][last_write'.at[2]] =
                                  last_write'.num]]_vars

\* The square scan of the unique-position rule has just written a cell,
\* after the naked-single rule wrote one: the write that rests on
\* puzzle_pos being up to date.
C7_Witness == last_write.rule = "square" /\ n_single > 0

\* The one cell of g that is empty and has exactly one possible value,
\* all other cells being filled.
OneForced(g) ==
    /\ Cardinality(EmptyCells(g)) = 1
    /\ \A a \in EmptyCells(g) : Len(possible_nums(g, a[1], a[2])) = 1

\* C8: solve_puzzle invokes backtracking only after both rules returned
\* False on the current grid, which still has an empty cell; and a grid
\* with one empty cell that has one candidate is filled by the naked-single
\* rule, solve_puzzle returns True and backtracking is never invoked.
C8_SearchOnlyWhenStalled ==
    /\ (pc = "bt_call" /\ stack = <<>>) =>
          /\ stalled = {"single", "only"}
          /\ ~ row_col_square_single_algo(puzzle, puzzle_pos).ret
          /\ ~ row_col_square_only_algo(puzzle, puzzle_pos).ret
          /\ EmptyCells(puzzle) # {}
    /\ OneForced(input) =>
          /\ bt_calls = 0
          /\ pc \in {"single", "only", "check", "done"}
          /\ pc = "done" =>
                (result /\ n_single = 1 /\ n_only = 0
                 /\ check_puzzle_solved(puzzle))

\* The grid with one forced empty cell has been solved.
C8_Witness == OneForced(input) /\ pc = "done" /\ result /\ n_single = 1

\* solve_puzzle is about to invoke backtracking after deduction made
\* progress and then stalled.
C8_SearchReached ==
    pc = "bt_call" /\ stack = <<>> /\ n_single > 0 /\ n_only > 0

\* C9: on the all-zero grid neither rule fills a cell, backtracking is
\* entered with the untouched empty grid, and solve_puzzle returns True with
\* a solved grid.
C9_EmptyGridSolved ==
    input = EmptyGrid =>
        /\ n_single = 0 /\ n_only = 0
        /\ pc \in {"single", "only", "check"} => puzzle = EmptyGrid
        /\ stack # <<>> => stack[1].entry = EmptyGrid
        /\ pc = "done" =>
              (result /\ bt_calls > 0 /\ check_puzzle_solved(puzzle)
               /\ ValidSolved(puzzle))

C9_Witness ==
    input = EmptyGrid /\ pc = "done" /\ result /\ ValidSolved(puzzle)

\* C10: solve_puzzle returns a boolean on every input, consistent or not
\* (stated as C10_Terminates below); the deduction loop makes at
\* most one successful rule call per cell empty at entry, and the recursion
\* depth of backtracking (the calls nested below the outermost one) never
\* exceeds the number of cells empty when backtracking was first called,
\* itself at most 81.
C10_Bounded ==
    /\ n_single + n_only <= Cardinality(EmptyCells(input))
    /\ stack # <<>> =>
          /\ Depth <= Cardinality(EmptyCells(stack[1].entry))
          /\ Cardinality(EmptyCells(stack[1].entry)) <= N * N

\* A measure of progress that every step of solve_puzzle increases and that
\* takes finitely many values: the phase (deduction, search, a True result
\* unwinding, done); within deduction the number of empty cells (falling)
\* and the position in the loop body; within the search the loop variables
\* of the frames, outermost first, in dictionary order; within unwinding the
\* number of frames (falling).
Phase(pcv, retv) ==
    CASE pcv \in {"single", "only", "check"} -> 0
      [] pcv \in {"bt_call", "bt_body"} -> 1
      [] pcv = "bt_ret" -> IF retv THEN 2 ELSE 1
      [] pcv = "done" -> 3

Micro(pcv) ==
    CASE pcv \in {"single", "bt_body"} -> 0
      [] pcv \in {"only", "bt_call", "bt_ret"} -> 1
      [] pcv = "check" -> 2
      [] pcv = "done" -> 3

Odometer(stk) == [i \in 1 .. Len(stk) |-> stk[i].num]

\* s comes before t in dictionary order (a proper prefix comes first).
LexLess(s, t) ==
    \E i \in 1 .. Len(t) :
        /\ i <= Len(s) + 1
        /\ \A j \in 1 .. (i - 1) : s[j] = t[j]
        /\ (i = Len(s) + 1 \/ s[i] < t[i])

Advances ==
    \/ Phase(pc, ret) < Phase(pc', ret')
    \/ /\ Phase(pc, ret) = 0 /\ Phase(pc', ret') = 0
       /\ \/ Cardinality(EmptyCells(puzzle')) < Cardinality(EmptyCells(puzzle))
          \/ /\ puzzle' = puzzle
             /\ Micro(pc) < Micro(pc')
    \/ /\ Phase(pc, ret) = 1 /\ Phase(pc', ret') = 1
       /\ \/ LexLess(Odometer(stack), Odometer(stack'))
          \/ /\ Odometer(stack) = Odometer(stack')
             /\ Micro(pc) < Micro(pc')
    \/ /\ Phase(pc, ret) = 2 /\ Phase(pc', ret') = 2
       /\ Len(stack') < Len(stack)

\* Termination: solve_puzzle never stops before it has returned, every step
\* advances the finite measure above (so no run is infinite), and the counts
\* of C10_Bounded hold throughout.
C10_Terminates ==
    /\ [] C10_Bounded
    /\ [] (pc = "done" \/ CanStep)
    /\ [] (pc = "done" => result \in BOOLEAN)
    /\ [][Advances]_vars

\* solve_puzzle has returned on an inconsistent input after deduction
\* steps and a search with nested calls.
C10_Witness ==
    /\ pc = "done" /\ ~ Legal(input)
    /\ n_single + n_only > 0 /\ bt_calls > 1

\* The depth bound is tight: after deduction steps the search stands one
\* nested call deep per cell that was empty when it began.
C10_DepthBoundTight ==
    /\ stack # <<>> /\ Depth > 0 /\ n_single + n_only > 0
    /\ Depth = Cardinality(EmptyCells(stack[1].entry))

\* The candidate list of cell (row, col) computed afresh from grid p: empty
\* for a filled cell, the possible values in ascending order otherwise.
FreshCandidates(p, row, col) ==
    IF p[row][col] # 0 THEN <<>> ELSE possible_nums(p, row, col)

\* C11: each time solve_puzzle invokes the unique-position rule, puzzle_pos
\* is up to date with the grid: empty for every filled cell and, for every
\* empty cell, exactly the values for which is_possible holds.
C11_CandidatesFresh ==
    pc = "only" =>
        \A a \in Cells :
            puzzle_pos[a[1]][a[2]] = FreshCandidates(puzzle, a[1], a[2])

\* The unique-position rule is about to be invoked on a grid with empty
\* cells, after naked-single passes that returned early and after fills of
\* its own, from an input whose givens already differ from the grid.
C11_Witness ==
    /\ pc = "only" /\ n_single > 1 /\ n_only > 0
    /\ EmptyCells(puzzle) # {}
    /\ last_write.rule = "single"

\* The step is a call of one of the two deduction rules by solve_puzzle.
RuleCall == pc \in {"single", "only"}

\* The rule called in this step returned True.
RuleSucceeded == n_single' # n_single \/ n_only' # n_only

\* C12: each call of the naked-single rule or the unique-position rule that
\* returns True changes exactly one grid cell, from 0 to a value in 1..9,
\* and leaves the other 80 cells unchanged; each call that returns False
\* leaves all 81 cells unchanged.
C12_OneCellPerSuccess ==
    [][RuleCall =>
          /\ RuleSucceeded =>
                \E a \in Cells :
                    /\ puzzle[a[1]][a[2]] = 0
                    /\ puzzle'[a[1]][a[2]] \in Nums
                    /\ \A b \in Cells \ {a} :
                          puzzle'[b[1]][b[2]] = puzzle[b[1]][b[2]]
          /\ ~ RuleSucceeded => puzzle' = puzzle]_vars

\* The column scan of the unique-position rule has just filled a cell, after
\* naked-single fills and after calls of both rules that returned False
\* could have happened (the loop is back at its head).
C12_Witness ==
    /\ last_write.rule = "col" /\ pc = "single" /\ stalled = {}
    /\ n_single > 0

\* C13: every cell that is non-zero when solve_puzzle is called holds the
\* same value in every state up to and at the return, whatever the result;
\* the cells written by the rules and by backtracking (assignments and
\* reverts) are all cells that were 0 at entry.
C13_GivensKept ==
    /\ [] (\A a \in Cells :
              input[a[1]][a[2]] # 0 => puzzle[a[1]][a[2]] = input[a[1]][a[2]])
    /\ [][n_writes' # n_writes =>
              input[last_write'.at[1]][last_write'.at[2]] = 0]_vars

\* solve_puzzle has returned False on an input with givens after both rules
\* filled cells and the search assigned and reverted cells.
C13_Witness ==
    /\ pc = "done" /\ ~ result
    /\ EmptyCells(input) # Cells
    /\ n_single > 0 /\ n_only > 0
    /\ last_write.rule = "revert"

\* ------------------------------------- solve_puzzle against backtracking
\* solve_puzzle has returned; its outcome is kept and backtracking is called
\* directly on a copy of the same input grid (the call of line 142, without
\* the deduction loop before it).
DirectCall ==
    /\ pc = "done"
    /\ ~ first_run.taken
    /\ first_run' = [taken |-> TRUE, result |-> result, puzzle |-> puzzle]
    /\ puzzle' = input
    /\ pc' = "bt_call"
    /\ stack' = <<>>
    /\ ret' = FALSE
    /\ result' = FALSE
    /\ UNCHANGED <<puzzle_pos, input, n_single, n_only, bt_calls, last_write,
                   n_writes, stalled>>

\* solve_puzzle is called on an input whose givens are consistent.
DirectInit == Init /\ Legal(input)

DirectNext == Next \/ DirectCall

\* One run of solve_puzzle followed by one run of backtracking alone, both
\* on the same consistent input.
DirectSpec == DirectInit /\ [][DirectNext]_vars

\* The cells that come before cell a in row-major order.
Before(a) == {b \in Cells : b[1] * N + b[2] < a[1] * N + a[2]}

\* The input with the cells before a filled as in g and cell a holding v.
Prefix(g, a, v) ==
    [row \in Idx |-> [col \in Idx |->
        IF <<row, col>> = a THEN v
        ELSE IF <<row, col>> \in Before(a) THEN g[row][col]
        ELSE input[row][col]]]

\* g is the completion of the input that is first in row-major,
\* ascending-value order: no completion agrees with g on the cells before
\* some empty cell a and holds a smaller value at a.
LexFirst(g) ==
    /\ ValidSolved(g)
    /\ \A a \in Cells \ EmptyCells(input) :
          g[a[1]][a[2]] = input[a[1]][a[2]]
    /\ \A a \in EmptyCells(input) : \A v \in 1 .. (g[a[1]][a[2]] - 1) :
          ~ HasCompletion(Prefix(g, a, v))

\* C14: on an input with consistent givens, solve_puzzle returns the same
\* boolean as backtracking applied directly to a copy of the input, and
\* when both return True the two final grids are identical: the completion
\* of the input that is first in row-major, ascending-value order.
C14_SameOutcome ==
    (pc = "done" /\ first_run.taken /\ Legal(input)) =>
        /\ result = first_run.result
        /\ result => (puzzle = first_run.puzzle /\ LexFirst(puzzle))

\* Both runs have returned True on an input that has more than one
\* completion and on which solve_puzzle filled cells by both rules before
\* it searched.
C14_Witness ==
    /\ pc = "done" /\ first_run.taken /\ result /\ first_run.result
    /\ n_single > 0 /\ n_only > 0
    /\ puzzle = first_run.puzzle /\ puzzle # input
    /\ \E a \in EmptyCells(input) : \E v \in (puzzle[a[1]][a[2]] + 1) .. N :
          HasCompletion(Prefix(puzzle, a, v))

\* Both runs have returned False on a consistent input on which deduction
\* filled cells: the other side of C14.
C14_BothFail ==
    /\ pc = "done" /\ first_run.taken /\ ~ result /\ ~ first_run.result
    /\ n_single + n_only > 0

====
